---- MODULE Spec2Model ----
(***************************************************************************)
(* Copy-on-write binary search tree with O(1) snapshots (src/src/lib.rs).  *)
(*                                                                         *)
(* Every Node<T> lives in `heap` under an id that is never reused.  A      *)
(* Child slot is a record [state, target]: state is the enum variant       *)
(* ("None", "Exclusive", "Shared") and target the id of the node in the    *)
(* Box / Arc<Box> (0 for None).  The strong count of an Arc is the number  *)
(* of Shared slots of live nodes that point at its node.  A tree handle is *)
(* a root Node owned by the caller: roots[h] is its id.                    *)
(***************************************************************************)
EXTENDS Integers, Sequences, FiniteSets, TLC

\* ---- bounds of the model ------------------------------------------------
MaxVal == 3
MaxNodes == 5
MaxHandles == 3

Values == 1..MaxVal
Ids == 1..MaxNodes
Handles == 1..MaxHandles

VARIABLES heap, next, roots, panicked, last, elems, origin, reader, worker

vars == <<heap, next, roots, panicked, last, elems, origin, reader, worker>>

\* ---- enum Child<T> --------------------------------------------------------
NoneChild == [state |-> "None", target |-> 0]
Exclusive(id) == [state |-> "Exclusive", target |-> id]
Shared(id) == [state |-> "Shared", target |-> id]
\* value standing for the panic raised by unreachable!()
Unreachable == [state |-> "Unreachable", target |-> 0]

\* ---- struct Node<T> / Node::new -------------------------------------------
NodeNew(element) == [children |-> [i \in {0, 1} |-> NoneChild], element |-> element]

\* ---- heap helpers ---------------------------------------------------------
\* Box::new / the allocation of a cloned node: a fresh id
Alloc(m, node) ==
    [m EXCEPT !.heap = [x \in (DOMAIN m.heap) \cup {m.next} |->
                           IF x = m.next THEN node ELSE m.heap[x]],
              !.next = m.next + 1]

\* strong count of the Arc around node t
RefCount(hp, t) ==
    Cardinality({p \in (DOMAIN hp) \X {0, 1} :
                    hp[p[1]].children[p[2]] = Shared(t)})

\* drop of one Arc handle to node t: the node is freed with the last handle
DropArc(hp, t) ==
    IF RefCount(hp, t) = 0
    THEN [x \in (DOMAIN hp) \ {t} |-> hp[x]]
    ELSE hp

\* ---- impl Clone for Node --------------------------------------------------
\* variant: an Exclusive child is handed out as a shared one instead of aborting
duplicate_child_shares_exclusive(child) ==
    CASE child.state = "Shared" -> Shared(child.target)
      [] child.state = "None" -> NoneChild
      [] child.state = "Exclusive" -> Shared(child.target)

duplicate_child(child) ==
    CASE child.state = "Shared" -> Shared(child.target)
      [] child.state = "None" -> NoneChild
      [] child.state = "Exclusive" -> Unreachable

\* variant: the duplicate loses the right child
NodeCloneLeftOnly(node) ==
    LET c0 == duplicate_child(node.children[0])
    IN IF c0 = Unreachable
       THEN Unreachable
       ELSE [children |-> [i \in {0, 1} |-> IF i = 0 THEN c0 ELSE NoneChild],
             element |-> node.element]

\* variant: the two children change places in the duplicate
NodeCloneSwapped(node) ==
    LET c0 == duplicate_child(node.children[0])
        c1 == duplicate_child(node.children[1])
    IN IF c0 = Unreachable \/ c1 = Unreachable
       THEN Unreachable
       ELSE [children |-> [i \in {0, 1} |-> IF i = 0 THEN c1 ELSE c0],
             element |-> node.element]

\* variant: the duplicate takes the shared children as its own
NodeCloneTakesChildren(node) ==
    LET c0 == duplicate_child(node.children[0])
        c1 == duplicate_child(node.children[1])
        take(c) == IF c.state = "Shared" THEN Exclusive(c.target) ELSE c
    IN IF c0 = Unreachable \/ c1 = Unreachable
       THEN Unreachable
       ELSE [children |-> [i \in {0, 1} |-> IF i = 0 THEN take(c0) ELSE take(c1)],
             element |-> node.element]

NodeClone(node) ==
    LET c0 == duplicate_child(node.children[0])
        c1 == duplicate_child(node.children[1])
    IN IF c0 = Unreachable \/ c1 = Unreachable
       THEN Unreachable
       ELSE [children |-> [i \in {0, 1} |-> IF i = 0 THEN c0 ELSE c1],
             element |-> node.element]

\* variant: the slot takes the shared node itself, no duplicate is made
MakeExclusiveInPlace(m, n, index) ==
    LET child == m.heap[n].children[index]
    IN IF child.state # "Shared" THEN m
       ELSE [m EXCEPT !.heap[n].children[index] = Exclusive(child.target)]

\* variant: a duplicate is made only when more than two handles own the node
MakeExclusiveCountOffByOne(m, n, index) ==
    LET child == m.heap[n].children[index]
        arc == child.target
        dup == NodeClone(m.heap[arc])
        m1 == Alloc(m, dup)
        hp2 == [m1.heap EXCEPT ![n].children[index] = Exclusive(m.next)]
    IN IF child.state # "Shared" THEN m
       ELSE IF RefCount(m.heap, arc) <= 2
            THEN [m EXCEPT !.heap[n].children[index] = Exclusive(arc)]
            ELSE IF dup = Unreachable
                 THEN [m EXCEPT !.heap[n].children[index] = NoneChild, !.panic = TRUE]
                 ELSE [m1 EXCEPT !.heap = DropArc(hp2, arc)]

\* variant: a node with a single owner is taken over instead of duplicated
MakeExclusiveReuseUnique(m, n, index) ==
    LET child == m.heap[n].children[index]
        arc == child.target
        dup == NodeClone(m.heap[arc])
        m1 == Alloc(m, dup)
        hp2 == [m1.heap EXCEPT ![n].children[index] = Exclusive(m.next)]
    IN IF child.state # "Shared" THEN m
       ELSE IF RefCount(m.heap, arc) = 1
            THEN [m EXCEPT !.heap[n].children[index] = Exclusive(arc)]
            ELSE IF dup = Unreachable
                 THEN [m EXCEPT !.heap[n].children[index] = NoneChild, !.panic = TRUE]
                 ELSE [m1 EXCEPT !.heap = DropArc(hp2, arc)]

\* ---- Child::make_exclusive ------------------------------------------------
\* applied to slot `index` of node n
ChildMakeExclusive(m, n, index) ==
    LET child == m.heap[n].children[index]
        arc == child.target
        dup == NodeClone(m.heap[arc])
        m1 == Alloc(m, dup)
        hp2 == [m1.heap EXCEPT ![n].children[index] = Exclusive(m.next)]
    IN IF child.state # "Shared" THEN m
       ELSE IF dup = Unreachable
            THEN [m EXCEPT !.heap[n].children[index] = NoneChild, !.panic = TRUE]
            ELSE [m1 EXCEPT !.heap = DropArc(hp2, arc)]

\* ---- Child::make_shared ---------------------------------------------------
ChildMakeShared(child) ==
    IF child.state = "Exclusive" THEN Shared(child.target) ELSE child

\* ---- Node::make_shared ----------------------------------------------------
RECURSIVE NodeMakeShared(_, _)
\* one iteration of the loop over self.children
\* variant: the child is made Shared without promoting the nodes below it
MakeSharedIterShallow(hp, n, i) ==
    [hp EXCEPT ![n].children[i] = ChildMakeShared(hp[n].children[i])]

MakeSharedIter(hp, n, i) ==
    LET child == hp[n].children[i]
        hp1 == IF child.state = "Exclusive"
               THEN NodeMakeShared(hp, child.target)
               ELSE hp
    IN [hp1 EXCEPT ![n].children[i] = ChildMakeShared(hp1[n].children[i])]

\* variant: the loop stops after the first child
NodeMakeSharedFirstOnly(hp, n) == MakeSharedIter(hp, n, 0)

NodeMakeShared(hp, n) == MakeSharedIter(MakeSharedIter(hp, n, 0), n, 1)

\* ---- Node::insert ---------------------------------------------------------
RECURSIVE NodeInsert(_, _, _)

\* variant: an equal element is replaced by a new node without children
NodeInsertReplace(m, n, v) ==
    IF m.heap[n].element = v THEN [m EXCEPT !.heap[n] = NodeNew(v)]
    ELSE LET index == IF v < m.heap[n].element THEN 0 ELSE 1
         IN IF m.heap[n].children[index].state = "None"
            THEN LET m1 == Alloc(m, NodeNew(v))
                 IN [m1 EXCEPT !.heap[n].children[index] = Exclusive(m.next)]
            ELSE LET m1 == ChildMakeExclusive(m, n, index)
                     child == m1.heap[n].children[index]
                 IN IF m1.panic THEN m1
                    ELSE IF child.state = "Exclusive"
                         THEN NodeInsert(m1, child.target, v)
                         ELSE m1

\* variant: the recursion enters a Shared child without promoting it
NodeInsertThroughShared(m, n, v) ==
    IF m.heap[n].element = v THEN m
    ELSE LET index == IF v < m.heap[n].element THEN 0 ELSE 1
             child == m.heap[n].children[index]
         IN IF child.state = "None"
            THEN LET m1 == Alloc(m, NodeNew(v))
                 IN [m1 EXCEPT !.heap[n].children[index] = Exclusive(m.next)]
            ELSE NodeInsert(m, child.target, v)

\* variant: the comparison that picks the child is inverted
NodeInsertSwapped(m, n, v) ==
    IF m.heap[n].element = v THEN m
    ELSE LET index == IF v < m.heap[n].element THEN 1 ELSE 0
         IN IF m.heap[n].children[index].state = "None"
            THEN LET m1 == Alloc(m, NodeNew(v))
                 IN [m1 EXCEPT !.heap[n].children[index] = Exclusive(m.next)]
            ELSE LET m1 == ChildMakeExclusive(m, n, index)
                     child == m1.heap[n].children[index]
                 IN IF m1.panic THEN m1
                    ELSE IF child.state = "Exclusive"
                         THEN NodeInsert(m1, child.target, v)
                         ELSE m1

\* variant: no test for an equal element, an equal value goes to the right
NodeInsertNoDupCheck(m, n, v) ==
    LET index == IF v < m.heap[n].element THEN 0 ELSE 1
    IN IF m.heap[n].children[index].state = "None"
       THEN LET m1 == Alloc(m, NodeNew(v))
            IN [m1 EXCEPT !.heap[n].children[index] = Exclusive(m.next)]
       ELSE LET m1 == ChildMakeExclusive(m, n, index)
                child == m1.heap[n].children[index]
            IN IF m1.panic THEN m1
               ELSE IF child.state = "Exclusive"
                    THEN NodeInsert(m1, child.target, v)
                    ELSE m1

\* variant: both children are promoted before the descent
NodeInsertPromoteBoth(m, n, v) ==
    IF m.heap[n].element = v THEN m
    ELSE LET index == IF v < m.heap[n].element THEN 0 ELSE 1
         IN IF m.heap[n].children[index].state = "None"
            THEN LET m1 == Alloc(m, NodeNew(v))
                 IN [m1 EXCEPT !.heap[n].children[index] = Exclusive(m.next)]
            ELSE LET m0 == ChildMakeExclusive(m, n, 1 - index)
                     m1 == ChildMakeExclusive(m0, n, index)
                     child == m1.heap[n].children[index]
                 IN IF m0.panic THEN m0
                    ELSE IF m1.panic THEN m1
                    ELSE IF child.state = "Exclusive"
                         THEN NodeInsert(m1, child.target, v)
                         ELSE m1

NodeInsert(m, n, v) ==
    IF m.heap[n].element = v THEN m
    ELSE LET index == IF v < m.heap[n].element THEN 0 ELSE 1
         IN IF m.heap[n].children[index].state = "None"
            THEN LET m1 == Alloc(m, NodeNew(v))
                 IN [m1 EXCEPT !.heap[n].children[index] = Exclusive(m.next)]
            ELSE LET m1 == ChildMakeExclusive(m, n, index)
                     child == m1.heap[n].children[index]
                 IN IF m1.panic THEN m1
                    ELSE IF child.state = "Exclusive"
                         THEN NodeInsert(m1, child.target, v)
                         ELSE m1

\* ---- Node::contains -------------------------------------------------------
\* returns the memory after the call together with the result
RECURSIVE NodeContains(_, _, _)

\* variant: a Shared child is promoted before the search enters it
NodeContainsPromoting(m, n, v) ==
    IF m.heap[n].element = v THEN [m |-> m, result |-> TRUE]
    ELSE LET index == IF v < m.heap[n].element THEN 0 ELSE 1
             m1 == ChildMakeExclusive(m, n, index)
             child == m1.heap[n].children[index]
         IN IF child.state = "None"
            THEN [m |-> m1, result |-> FALSE]
            ELSE NodeContains(m1, child.target, v)

NodeContains(m, n, v) ==
    IF m.heap[n].element = v THEN [m |-> m, result |-> TRUE]
    ELSE LET index == IF v < m.heap[n].element THEN 0 ELSE 1
             child == m.heap[n].children[index]
         IN CASE child.state = "Exclusive" -> NodeContains(m, child.target, v)
              [] child.state = "Shared" -> NodeContains(m, child.target, v)
              [] child.state = "None" -> [m |-> m, result |-> FALSE]

\* ---- Node::snapshot -------------------------------------------------------
\* returns the memory after the call; the returned Node has id m.next
\* variant: the left child of the root is duplicated too
NodeSnapshotCopiesChild(m, n) ==
    LET m1 == [m EXCEPT !.heap = NodeMakeShared(m.heap, n)]
        dup == NodeClone(m1.heap[n])
        m2 == Alloc(m1, dup)
        left == dup.children[0]
        m3 == Alloc(m2, m2.heap[left.target])
    IN IF dup = Unreachable
       THEN [m1 EXCEPT !.panic = TRUE]
       ELSE IF left.state = "Shared"
            THEN [m3 EXCEPT !.heap[m1.next].children[0] = Shared(m2.next)]
            ELSE m2

NodeSnapshot(m, n) ==
    LET m1 == [m EXCEPT !.heap = NodeMakeShared(m.heap, n)]
        dup == NodeClone(m1.heap[n])
    IN IF dup = Unreachable
       THEN [m1 EXCEPT !.panic = TRUE]
       ELSE Alloc(m1, dup)

\* ---- state of the program -------------------------------------------------
Mem == [heap |-> heap, next |-> next, panic |-> panicked]

\* set of values v with contains(v) on the tree rooted at n
Contents(hp, n) ==
    {v \in Values : NodeContains([heap |-> hp, next |-> 0, panic |-> FALSE], n, v).result}

\* node ids that are the target of some Shared slot
SharedTargets(hp) ==
    {hp[p[1]].children[p[2]].target :
        p \in {q \in (DOMAIN hp) \X {0, 1} : hp[q[1]].children[q[2]].state = "Shared"}}

\* reader, worker: the operation each of two threads is running, when the
\* operations are taken one node visit at a time (SpecSteps)
Idle == [op |-> "idle"]

\* last: the operation that ran last; result is the value contains returned
NoOp == [op |-> "new", result |-> FALSE]

\* let mut tree = Node::new(element): the program starts with one tree
Init ==
    /\ \E element \in Values :
          /\ heap = [x \in {1} |-> NodeNew(element)]
          /\ elems = <<{element}>>
    /\ next = 2
    /\ roots = <<1>>
    /\ panicked = FALSE
    /\ last = NoOp
    /\ origin = <<0>>
    /\ reader = Idle
    /\ worker = Idle

\* tree.insert(v); last.result records whether the search met an element
\* equal to v (the early return of insert)
Insert(h, v) ==
    /\ ~panicked
    /\ h \in 1..Len(roots)
    /\ elems' = [elems EXCEPT ![h] = @ \cup {v}]
    /\ last' = [op |-> "insert", result |-> NodeContains(Mem, roots[h], v).result]
    /\ LET m1 == NodeInsert(Mem, roots[h], v)
       IN /\ m1.next <= MaxNodes + 1
          /\ heap' = m1.heap
          /\ next' = m1.next
          /\ panicked' = m1.panic
    /\ UNCHANGED <<roots, origin, reader, worker>>

\* tree.contains(v)
Contains(h, v) ==
    /\ ~panicked
    /\ h \in 1..Len(roots)
    /\ LET r == NodeContains(Mem, roots[h], v)
       IN /\ heap' = r.m.heap
          /\ next' = r.m.next
          /\ panicked' = r.m.panic
          /\ last' = [op |-> "contains", result |-> r.result]
    /\ UNCHANGED <<roots, elems, origin, reader, worker>>

\* let mut tree2 = tree.snapshot()
Snapshot(h) ==
    /\ ~panicked
    /\ h \in 1..Len(roots)
    /\ Len(roots) < MaxHandles
    /\ next <= MaxNodes
    /\ LET m1 == NodeSnapshot(Mem, roots[h])
       IN /\ heap' = m1.heap
          /\ next' = m1.next
          /\ panicked' = m1.panic
          /\ roots' = IF m1.panic THEN roots ELSE Append(roots, next)
          /\ elems' = IF m1.panic THEN elems ELSE Append(elems, elems[h])
          /\ origin' = IF m1.panic THEN origin
                       ELSE Append(origin, h)
    /\ last' = [op |-> "snapshot", result |-> FALSE]
    /\ UNCHANGED <<reader, worker>>

\* let mut tree2 = tree.clone()
Clone(h) ==
    /\ ~panicked
    /\ h \in 1..Len(roots)
    /\ Len(roots) < MaxHandles
    /\ next <= MaxNodes
    /\ LET dup == NodeClone(heap[roots[h]])
           m1 == Alloc(Mem, dup)
       IN IF dup = Unreachable
          THEN /\ panicked' = TRUE
               /\ UNCHANGED <<heap, next, roots, elems, origin>>
          ELSE /\ heap' = m1.heap
               /\ next' = m1.next
               /\ roots' = Append(roots, next)
               /\ elems' = Append(elems, elems[h])
               /\ origin' = Append(origin, h)
               /\ UNCHANGED panicked
    /\ last' = [op |-> "clone", result |-> FALSE]
    /\ UNCHANGED <<reader, worker>>

Next ==
    \/ \E h \in Handles, v \in Values : Insert(h, v)
    \/ \E h \in Handles, v \in Values : Contains(h, v)
    \/ \E h \in Handles : Snapshot(h)
    \/ \E h \in Handles : Clone(h)

Spec == Init /\ [][Next]_vars

\* ---- the operations one node visit at a time ---------------------------------
\* Two threads: `reader` runs contains calls, `worker` runs insert, contains
\* and snapshot calls, never both on the same handle.  A step is one
\* activation of a recursive method up to its recursive call.  last, elems
\* and origin belong to Spec and are left alone here.

\* one activation of Node::contains at node n
ContainsVisit(hp, n, v) ==
    IF hp[n].element = v THEN [done |-> TRUE, result |-> TRUE, node |-> n]
    ELSE LET index == IF v < hp[n].element THEN 0 ELSE 1
             child == hp[n].children[index]
         IN CASE child.state = "Exclusive" ->
                    [done |-> FALSE, result |-> FALSE, node |-> child.target]
              [] child.state = "Shared" ->
                    [done |-> FALSE, result |-> FALSE, node |-> child.target]
              [] child.state = "None" ->
                    [done |-> TRUE, result |-> FALSE, node |-> n]

\* variant: after the promotion of a Shared slot the same node is visited again
InsertVisitRetry(m, n, v) ==
    IF m.heap[n].element = v
    THEN [m |-> m, done |-> TRUE, node |-> n, slot |-> "Equal", owners |-> 0]
    ELSE LET index == IF v < m.heap[n].element THEN 0 ELSE 1
             met == m.heap[n].children[index].state
             owners == IF met = "Shared"
                       THEN RefCount(m.heap, m.heap[n].children[index].target)
                       ELSE 0
         IN IF met = "None"
            THEN LET m1 == Alloc(m, NodeNew(v))
                 IN [m |-> [m1 EXCEPT !.heap[n].children[index] = Exclusive(m.next)],
                     done |-> TRUE, node |-> n, slot |-> met, owners |-> owners]
            ELSE LET m1 == ChildMakeExclusive(m, n, index)
                     child == m1.heap[n].children[index]
                 IN IF ~m1.panic /\ child.state = "Exclusive"
                    THEN [m |-> m1, done |-> FALSE,
                          node |-> IF met = "Shared" THEN n ELSE child.target,
                          slot |-> met, owners |-> owners]
                    ELSE [m |-> m1, done |-> TRUE, node |-> n,
                          slot |-> met, owners |-> owners]

\* one activation of Node::insert at node n; slot is what the activation met:
\* "Equal" for an equal element, else the state of the child slot it chose,
\* and owners the strong count of the Arc in that slot (0 without an Arc)
InsertVisit(m, n, v) ==
    IF m.heap[n].element = v
    THEN [m |-> m, done |-> TRUE, node |-> n, slot |-> "Equal", owners |-> 0]
    ELSE LET index == IF v < m.heap[n].element THEN 0 ELSE 1
             met == m.heap[n].children[index].state
             owners == IF met = "Shared"
                       THEN RefCount(m.heap, m.heap[n].children[index].target)
                       ELSE 0
         IN IF met = "None"
            THEN LET m1 == Alloc(m, NodeNew(v))
                 IN [m |-> [m1 EXCEPT !.heap[n].children[index] = Exclusive(m.next)],
                     done |-> TRUE, node |-> n, slot |-> met, owners |-> owners]
            ELSE LET m1 == ChildMakeExclusive(m, n, index)
                     child == m1.heap[n].children[index]
                 IN IF ~m1.panic /\ child.state = "Exclusive"
                    THEN [m |-> m1, done |-> FALSE, node |-> child.target,
                          slot |-> met, owners |-> owners]
                    ELSE [m |-> m1, done |-> TRUE, node |-> n,
                          slot |-> met, owners |-> owners]

\* variant: the loop enters every child that is there, Shared ones included
RECURSIVE MakeSharedAdvanceIntoShared(_, _, _)
MakeSharedAdvanceIntoShared(hp, n, i) ==
    IF i = 2 THEN [heap |-> hp, i |-> 2]
    ELSE IF hp[n].children[i].state # "None"
         THEN [heap |-> hp, i |-> i]
         ELSE MakeSharedAdvanceIntoShared(hp, n, i + 1)

\* the loop of Node::make_shared at node n from child i on, up to the next
\* Exclusive child (i < 2: the recursion enters it) or to the end (i = 2)
RECURSIVE MakeSharedAdvance(_, _, _)
MakeSharedAdvance(hp, n, i) ==
    IF i = 2 THEN [heap |-> hp, i |-> 2]
    ELSE IF hp[n].children[i].state = "Exclusive"
         THEN [heap |-> hp, i |-> i]
         ELSE MakeSharedAdvance(
                 [hp EXCEPT ![n].children[i] = ChildMakeShared(hp[n].children[i])],
                 n, i + 1)

\* one activation step of Node::make_shared: stack holds the activations,
\* [n, i, back]: node, child index, and whether the recursion into child i
\* has returned and child i is to be made Shared
MakeSharedVisit(hp, stack) ==
    LET top == stack[Len(stack)]
        hp1 == IF top.back
               THEN [hp EXCEPT ![top.n].children[top.i] =
                                   ChildMakeShared(hp[top.n].children[top.i])]
               ELSE hp
        r == MakeSharedAdvance(hp1, top.n, IF top.back THEN top.i + 1 ELSE top.i)
        rest == SubSeq(stack, 1, Len(stack) - 1)
    IN IF r.i = 2
       THEN [heap |-> r.heap, stack |-> rest]
       ELSE [heap |-> r.heap,
             stack |-> rest \o << [n |-> top.n, i |-> r.i, back |-> TRUE],
                                  [n |-> r.heap[top.n].children[r.i].target,
                                   i |-> 0, back |-> FALSE] >>]

\* number of nodes on the longest path down from node n
RECURSIVE Height(_, _)
Height(hp, n) ==
    LET below(i) == IF hp[n].children[i].state = "None" THEN 0
                    ELSE Height(hp, hp[n].children[i].target)
    IN 1 + (IF below(0) > below(1) THEN below(0) ELSE below(1))

\* number of nodes of the tree under node n
RECURSIVE Size(_, _)
Size(hp, n) ==
    LET below(i) == IF hp[n].children[i].state = "None" THEN 0
                    ELSE Size(hp, hp[n].children[i].target)
    IN 1 + below(0) + below(1)

Running == {"insert", "contains", "snapshot"}

Finished(was, visits, limit, slot, owners) ==
    [op |-> "done", was |-> was, visits |-> visits, limit |-> limit, slot |-> slot,
     owners |-> owners]

\* the reader sees a write of the worker
Raced(hp) ==
    IF reader.op = "contains" /\ hp # heap
    THEN [reader EXCEPT !.raced = TRUE]
    ELSE reader

\* thread 1: tree.contains(v) is called
ReaderBegin(h, v) ==
    /\ ~panicked
    /\ reader.op # "contains"
    /\ h \in 1..Len(roots)
    /\ worker.op \in Running => worker.h # h
    /\ reader' = [op |-> "contains", h |-> h, v |-> v, node |-> roots[h],
                  alone |-> NodeContains(Mem, roots[h], v).result, raced |-> FALSE]
    /\ UNCHANGED <<heap, next, roots, panicked, last, elems, origin, worker>>

\* thread 1: one activation of contains
ReaderStep ==
    /\ ~panicked
    /\ reader.op = "contains"
    /\ LET r == ContainsVisit(heap, reader.node, reader.v)
       IN reader' = IF r.done
                    THEN [op |-> "done", result |-> r.result,
                          alone |-> reader.alone, raced |-> reader.raced]
                    ELSE [reader EXCEPT !.node = r.node]
    /\ UNCHANGED <<heap, next, roots, panicked, last, elems, origin, worker>>

\* thread 2: tree.insert(v) is called
BeginInsert(h, v) ==
    /\ ~panicked
    /\ worker.op \notin Running
    /\ h \in 1..Len(roots)
    /\ reader.op = "contains" => reader.h # h
    /\ NodeInsert(Mem, roots[h], v).next <= MaxNodes + 1
    /\ worker' = [op |-> "insert", h |-> h, v |-> v, node |-> roots[h], visits |-> 0,
                  limit |-> Height(heap, roots[h]), slot |-> "Start", owners |-> 0]
    /\ UNCHANGED <<heap, next, roots, panicked, last, elems, origin, reader>>

\* thread 2: one activation of insert
InsertStep ==
    /\ ~panicked
    /\ worker.op = "insert"
    /\ LET r == InsertVisit(Mem, worker.node, worker.v)
       IN /\ heap' = r.m.heap
          /\ next' = r.m.next
          /\ panicked' = r.m.panic
          /\ reader' = Raced(r.m.heap)
          /\ worker' = IF r.done
                       THEN Finished("insert", worker.visits + 1, worker.limit,
                                     r.slot, r.owners)
                       ELSE [worker EXCEPT !.node = r.node, !.visits = @ + 1,
                                           !.slot = r.slot, !.owners = r.owners]
    /\ UNCHANGED <<roots, last, elems, origin>>

\* thread 2: tree.contains(v) is called
BeginContains(h, v) ==
    /\ ~panicked
    /\ worker.op \notin Running
    /\ h \in 1..Len(roots)
    /\ reader.op = "contains" => reader.h # h
    /\ worker' = [op |-> "contains", h |-> h, v |-> v, node |-> roots[h], visits |-> 0,
                  limit |-> Height(heap, roots[h])]
    /\ UNCHANGED <<heap, next, roots, panicked, last, elems, origin, reader>>

\* thread 2: one activation of contains
ContainsStep ==
    /\ ~panicked
    /\ worker.op = "contains"
    /\ LET r == ContainsVisit(heap, worker.node, worker.v)
       IN worker' = IF r.done
                    THEN Finished("contains", worker.visits + 1, worker.limit,
                                  IF r.result THEN "Equal" ELSE "None", 0)
                    ELSE [worker EXCEPT !.node = r.node, !.visits = @ + 1]
    /\ UNCHANGED <<heap, next, roots, panicked, last, elems, origin, reader>>

\* thread 2: tree.snapshot() is called
BeginSnapshot(h) ==
    /\ ~panicked
    /\ worker.op \notin Running
    /\ h \in 1..Len(roots)
    /\ reader.op = "contains" => reader.h # h
    /\ Len(roots) < MaxHandles
    /\ next <= MaxNodes
    /\ worker' = [op |-> "snapshot", h |-> h,
                  stack |-> << [n |-> roots[h], i |-> 0, back |-> FALSE] >>,
                  visits |-> 1, limit |-> Size(heap, roots[h])]
    /\ UNCHANGED <<heap, next, roots, panicked, last, elems, origin, reader>>

\* thread 2: one activation step of self.make_shared() in snapshot
PromoteStep ==
    /\ ~panicked
    /\ worker.op = "snapshot"
    /\ worker.stack # <<>>
    /\ LET r == MakeSharedVisit(heap, worker.stack)
       IN /\ heap' = r.heap
          /\ reader' = Raced(r.heap)
          /\ worker' = [worker EXCEPT !.stack = r.stack,
                                      !.visits = IF Len(r.stack) > Len(worker.stack)
                                                 THEN @ + 1 ELSE @]
    /\ UNCHANGED <<next, roots, panicked, last, elems, origin>>

\* thread 2: self.clone() in snapshot, and the return of the new tree
CloneStep ==
    /\ ~panicked
    /\ worker.op = "snapshot"
    /\ worker.stack = <<>>
    /\ LET dup == NodeClone(heap[roots[worker.h]])
           m1 == Alloc(Mem, dup)
       IN IF dup = Unreachable
          THEN /\ panicked' = TRUE
               /\ UNCHANGED <<heap, next, roots, reader>>
          ELSE /\ heap' = m1.heap
               /\ next' = m1.next
               /\ roots' = Append(roots, next)
               /\ reader' = Raced(m1.heap)
               /\ UNCHANGED panicked
    /\ worker' = Finished("snapshot", worker.visits, worker.limit, "Start", 0)
    /\ UNCHANGED <<last, elems, origin>>

WorkerStep == InsertStep \/ ContainsStep \/ PromoteStep \/ CloneStep

\* thread 2 alone
NextVisit ==
    \/ \E h \in Handles, v \in Values : BeginInsert(h, v)
    \/ InsertStep
    \/ \E h \in Handles, v \in Values : BeginContains(h, v)
    \/ ContainsStep
    \/ \E h \in Handles : BeginSnapshot(h)
    \/ PromoteStep
    \/ CloneStep

SpecVisit == Init /\ [][NextVisit]_vars

\* both threads
NextSteps ==
    \/ \E h \in Handles, v \in Values : ReaderBegin(h, v)
    \/ ReaderStep
    \/ NextVisit

SpecSteps == Init /\ [][NextSteps]_vars

\* a thread that is inside a call keeps running
FairVisit == SpecVisit /\ WF_vars(WorkerStep)

\* ---- helpers of the properties ----------------------------------------------
HandleSet == 1..Len(roots)

\* ids of the nodes reachable from node n, n included
RECURSIVE ReachFrom(_, _)
ReachFrom(hp, n) ==
    {n} \cup UNION {ReachFrom(hp, hp[n].children[i].target) :
                        i \in {i \in {0, 1} : hp[n].children[i].state # "None"}}

\* the child slots <<node, index>> of the nodes reachable from n
SlotsFrom(hp, n) == ReachFrom(hp, n) \X {0, 1}

SlotStates(hp, n) == {hp[p[1]].children[p[2]].state : p \in SlotsFrom(hp, n)}

\* targets of the Exclusive slots reachable from node n
ExclusiveTargets(hp, n) ==
    {hp[p[1]].children[p[2]].target :
        p \in {q \in SlotsFrom(hp, n) : hp[q[1]].children[q[2]].state = "Exclusive"}}

\* the child slots <<node, index>> that the search for v visits from node n
RECURSIVE PathSlots(_, _, _)
PathSlots(hp, n, v) ==
    IF hp[n].element = v THEN <<>>
    ELSE LET index == IF v < hp[n].element THEN 0 ELSE 1
             child == hp[n].children[index]
         IN IF child.state = "None"
            THEN << <<n, index>> >>
            ELSE << <<n, index>> >> \o PathSlots(hp, child.target, v)

TypeOK ==
    /\ DOMAIN heap \subseteq Ids
    /\ next \in 1..(MaxNodes + 1)
    /\ Len(roots) <= MaxHandles
    /\ \A h \in HandleSet : roots[h] \in DOMAIN heap
    /\ panicked \in BOOLEAN

\* C1: snapshot independence.  For a handle B made from handle A, an insert
\* into B changes contains(A, v) for no value v, and an insert into A changes
\* contains(B, v) for no value v.
SnapshotIndependence ==
    [][\A a \in HandleSet, b \in HandleSet, v \in Values :
          (last'.op = "insert" /\ origin[b] = a) =>
             /\ Insert(b, v) => Contents(heap', roots[a]) = Contents(heap, roots[a])
             /\ Insert(a, v) => Contents(heap', roots[b]) = Contents(heap, roots[b])]_vars

\* an insert ran last, two handles one made from the other hold different
\* sets of values, and they still share a node
SnapshotIndependenceWitness ==
    /\ last.op = "insert"
    /\ \E a \in HandleSet, b \in HandleSet :
          /\ origin[b] = a
          /\ Contents(heap, roots[a]) # Contents(heap, roots[b])
          /\ (ReachFrom(heap, roots[a]) \cap ReachFrom(heap, roots[b])) # {}

\* C2: snapshot equivalence at creation.  Right after B = snapshot(A), A and B
\* contain the same values, and A contains what it contained before the call.
SnapshotEquivalence ==
    [][\A a \in HandleSet :
          (last'.op = "snapshot" /\ Snapshot(a)) =>
             /\ Len(roots') = Len(roots) + 1
             /\ Contents(heap', roots'[a]) = Contents(heap, roots[a])
             /\ Contents(heap', roots'[Len(roots')]) = Contents(heap', roots'[a])]_vars

\* a snapshot ran last on a tree of three values and the new handle holds them
SnapshotEquivalenceWitness ==
    /\ last.op = "snapshot"
    /\ ~panicked
    /\ Len(roots) >= 2
    /\ Cardinality(Contents(heap, roots[Len(roots)])) >= 3
    /\ Contents(heap, roots[Len(roots)]) = Contents(heap, roots[origin[Len(roots)]])

\* C3: membership after insert.  After insert(v) on a handle in any ownership
\* state, contains(v) holds, every value contained before is still contained,
\* and no handle contains a value that was not given to new or inserted into
\* it or into its source before the handle was made.
MembershipAfterInsert ==
    [][\A h \in HandleSet, v \in Values :
          (last'.op = "insert" /\ Insert(h, v)) =>
             /\ v \in Contents(heap', roots[h])
             /\ Contents(heap, roots[h]) \subseteq Contents(heap', roots[h])
             /\ \A g \in HandleSet : Contents(heap', roots[g]) \subseteq elems'[g]]_vars

\* an insert ran last on a handle that has Exclusive and Shared slots, and the
\* handle contains every value inserted
MembershipAfterInsertWitness ==
    /\ last.op = "insert"
    /\ ~last.result
    /\ \E h \in HandleSet :
          /\ {"Exclusive", "Shared"} \subseteq SlotStates(heap, roots[h])
          /\ Contents(heap, roots[h]) = elems[h]
          /\ Cardinality(elems[h]) >= 3

\* C4: independence across several snapshots.  With T2 and T3 both made from
\* T, an insert into one of T2, T3 changes contains for no value on the other
\* one nor on T; and a further handle taken from T when T already has one
\* holds exactly the values T held at that moment, T and the earlier handle
\* keeping theirs.
SiblingIndependence ==
    [][/\ \A t \in HandleSet, g \in HandleSet, h \in HandleSet, v \in Values :
            (last'.op = "insert" /\ g # h /\ origin[g] = t /\ origin[h] = t
                /\ Insert(h, v)) =>
               /\ Contents(heap', roots[g]) = Contents(heap, roots[g])
               /\ Contents(heap', roots[t]) = Contents(heap, roots[t])
       /\ \A t \in HandleSet, g \in HandleSet :
            (last'.op = "snapshot" /\ origin[g] = t /\ Snapshot(t)) =>
               /\ Len(roots') = Len(roots) + 1
               /\ Contents(heap', roots'[Len(roots')]) = Contents(heap, roots[t])
               /\ Contents(heap', roots[g]) = Contents(heap, roots[g])
               /\ Contents(heap', roots[t]) = Contents(heap, roots[t])]_vars

\* an insert ran last; T3, made from T after T2, holds a value that T and T2
\* lack and still shares a node with T
SiblingIndependenceWitness ==
    /\ last.op = "insert"
    /\ \E t \in HandleSet, g \in HandleSet, h \in HandleSet :
          /\ g < h
          /\ origin[g] = t
          /\ origin[h] = t
          /\ Contents(heap, roots[h]) \ Contents(heap, roots[t]) # {}
          /\ Contents(heap, roots[h]) \ Contents(heap, roots[g]) # {}
          /\ (ReachFrom(heap, roots[h]) \cap ReachFrom(heap, roots[t])) # {}

\* C5: ownership invariant.  A node that is the target of a Shared slot keeps
\* its element and both child slots in every step for as long as it lives, and
\* stays the target of a Shared slot; an insert writes or creates only the root
\* of its handle and nodes held in Exclusive slots of that handle.
OwnershipInvariant ==
    [][/\ \A n \in SharedTargets(heap) \cap DOMAIN heap' :
            /\ heap'[n] = heap[n]
            /\ n \in SharedTargets(heap')
       /\ \A h \in HandleSet, v \in Values :
            (last'.op = "insert" /\ Insert(h, v)) =>
               \A n \in DOMAIN heap' :
                  (n \notin DOMAIN heap \/ heap'[n] # heap[n]) =>
                     \/ n = roots[h]
                     \/ n \in ExclusiveTargets(heap', roots[h])]_vars

\* an insert ran last and left a duplicate in an Exclusive slot while two other
\* slots still share the original node
OwnershipInvariantWitness ==
    /\ last.op = "insert"
    /\ \E t \in SharedTargets(heap), h \in HandleSet :
          /\ RefCount(heap, t) >= 2
          /\ \E c \in ExclusiveTargets(heap, roots[h]) :
                c # t /\ heap[c].element = heap[t].element

\* C6: the unreachable!() of clone is never hit by insert, contains or
\* snapshot: every duplication they make is of a node without Exclusive
\* child slot.  Only a direct clone can end in the fault.
UnreachableNeverHit == panicked => last.op = "clone"

\* an insert ran last and duplicated a node that has a Shared child
UnreachableNeverHitWitness ==
    /\ last.op = "insert"
    /\ ~panicked
    /\ \E h \in HandleSet :
          \E c \in ExclusiveTargets(heap, roots[h]) :
             \E i \in {0, 1} : heap[c].children[i].state = "Shared"

\* C7: no duplicates.  An insert of a value the tree already contains changes
\* contains for no value and does not increase the number of nodes reachable
\* from the handle.
NoDuplicates ==
    [][\A h \in HandleSet, v \in Values :
          (last'.op = "insert" /\ Insert(h, v) /\ v \in Contents(heap, roots[h])) =>
             /\ Contents(heap', roots[h]) = Contents(heap, roots[h])
             /\ Cardinality(ReachFrom(heap', roots[h]))
                   <= Cardinality(ReachFrom(heap, roots[h]))]_vars

\* an insert of a value already present ran last, on a tree with Shared slots
\* that has one node per value
NoDuplicatesWitness ==
    /\ last.op = "insert"
    /\ last.result
    /\ \E h \in HandleSet :
          /\ "Shared" \in SlotStates(heap, roots[h])
          /\ Cardinality(elems[h]) >= 2
          /\ Cardinality(ReachFrom(heap, roots[h])) = Cardinality(elems[h])

\* C8: contains is a pure read.  A contains call changes no node, no slot
\* state and no slot target, on Exclusive and on Shared paths alike.
ContainsIsPure ==
    [][\A h \in HandleSet, v \in Values :
          (last'.op = "contains" /\ Contains(h, v)) =>
             /\ heap' = heap
             /\ next' = next
             /\ roots' = roots
             /\ panicked' = panicked]_vars

\* a contains that found its value ran last while every handle has nodes below
\* its root, one behind a Shared slot and one behind an Exclusive slot
ContainsIsPureWitness ==
    /\ last.op = "contains"
    /\ last.result
    /\ \A h \in HandleSet : SlotStates(heap, roots[h]) # {"None"}
    /\ \E h \in HandleSet : "Shared" \in SlotStates(heap, roots[h])
    /\ \E h \in HandleSet : "Exclusive" \in SlotStates(heap, roots[h])

\* C9: clone on a handle whose root has an Exclusive child slot ends in the
\* unreachable fault and makes no handle; clone on a handle whose root slots
\* are Shared or None makes a handle that contains the same values as the
\* receiver.
CloneFaultOrCopy ==
    [][\A h \in HandleSet :
          (last'.op = "clone" /\ Clone(h)) =>
             IF \E i \in {0, 1} : heap[roots[h]].children[i].state = "Exclusive"
             THEN /\ panicked'
                  /\ roots' = roots
                  /\ heap' = heap
             ELSE /\ ~panicked'
                  /\ Len(roots') = Len(roots) + 1
                  /\ Contents(heap', roots'[Len(roots')]) = Contents(heap, roots[h])
                  /\ Contents(heap', roots[h]) = Contents(heap, roots[h])]_vars

\* a clone ran last on a root with an Exclusive child and ended in the fault
CloneFaultOrCopyWitness ==
    /\ last.op = "clone"
    /\ panicked
    /\ \E h \in HandleSet, i \in {0, 1} : heap[roots[h]].children[i].state = "Exclusive"

\* C10: path copying.  An insert creates one duplicate per Shared slot on the
\* search path of its value plus one leaf when the value is new, and nothing
\* else; each duplicate has the element of the node it replaces and that
\* node's slots off the path; every slot off the path keeps state and target,
\* and only nodes replaced by a duplicate can be released.
PathCopying ==
    [][\A h \in HandleSet, v \in Values :
          (last'.op = "insert" /\ Insert(h, v)) =>
             LET path == PathSlots(heap, roots[h], v)
                 onPath == {path[k] : k \in 1..Len(path)}
                 sharedOnPath == {p \in onPath : heap[p[1]].children[p[2]].state = "Shared"}
                 replaced == {heap[p[1]].children[p[2]].target : p \in sharedOnPath}
                 leaf == IF v \in Contents(heap, roots[h]) THEN 0 ELSE 1
                 fresh == (DOMAIN heap') \ (DOMAIN heap)
             IN /\ Cardinality(fresh) = Cardinality(sharedOnPath) + leaf
                /\ next' - next = Cardinality(fresh)
                /\ \A t \in replaced :
                      \E c \in fresh :
                         /\ heap'[c].element = heap[t].element
                         /\ \A j \in {0, 1} :
                               <<t, j>> \notin onPath =>
                                  heap'[c].children[j] = heap[t].children[j]
                /\ leaf = 1 => \E c \in fresh : heap'[c] = NodeNew(v)
                /\ \A n \in (DOMAIN heap) \cap (DOMAIN heap') :
                      /\ heap'[n].element = heap[n].element
                      /\ \A j \in {0, 1} :
                            <<n, j>> \notin onPath =>
                               heap'[n].children[j] = heap[n].children[j]
                /\ (DOMAIN heap) \ (DOMAIN heap') \subseteq replaced]_vars

\* an insert of a new value ran last below a duplicated node: the handle holds
\* the duplicate in an Exclusive slot, with the new leaf under it, and another
\* handle still holds the original in a Shared slot
PathCopyingWitness ==
    /\ last.op = "insert"
    /\ ~last.result
    /\ \E h \in HandleSet, g \in HandleSet, i \in {0, 1} :
          LET c == heap[roots[h]].children[i]
              t == heap[roots[g]].children[i]
          IN /\ c.state = "Exclusive"
             /\ t.state = "Shared"
             /\ heap[c.target].element = heap[t.target].element
             /\ \E j \in {0, 1} : heap[c.target].children[j].state = "Exclusive"

\* C11 as stated: an insert of a value that is already an element creates no
\* node and leaves every node reachable from the handle as it was.
InsertPresentNoChange ==
    [][\A h \in HandleSet, v \in Values :
          (last'.op = "insert" /\ Insert(h, v) /\ v \in Contents(heap, roots[h])) =>
             /\ next' = next
             /\ \A n \in ReachFrom(heap, roots[h]) :
                   n \in DOMAIN heap' /\ heap'[n] = heap[n]]_vars

\* C11 amended: an insert of a value that is already an element creates no
\* leaf and changes contains for no value; it changes nothing at all when no
\* slot on the path to the value is Shared, and otherwise the only changes are
\* that each Shared slot on that path becomes Exclusive with a fresh duplicate
\* of its node.
InsertPresentCopiesSharedPath ==
    [][\A h \in HandleSet, v \in Values :
          (last'.op = "insert" /\ Insert(h, v) /\ v \in Contents(heap, roots[h])) =>
             LET path == PathSlots(heap, roots[h], v)
                 onPath == {path[k] : k \in 1..Len(path)}
                 sharedOnPath == {p \in onPath : heap[p[1]].children[p[2]].state = "Shared"}
                 fresh == (DOMAIN heap') \ (DOMAIN heap)
             IN /\ sharedOnPath = {} => (heap' = heap /\ next' = next)
                /\ next' - next = Cardinality(sharedOnPath)
                /\ Cardinality(fresh) = Cardinality(sharedOnPath)
                /\ Contents(heap', roots[h]) = Contents(heap, roots[h])
                /\ {heap'[n].element : n \in ReachFrom(heap', roots[h])}
                      = {heap[n].element : n \in ReachFrom(heap, roots[h])}
                /\ \A n \in (DOMAIN heap) \cap (DOMAIN heap') :
                      /\ heap'[n].element = heap[n].element
                      /\ \A j \in {0, 1} :
                            heap'[n].children[j] # heap[n].children[j] =>
                               /\ <<n, j>> \in sharedOnPath
                               /\ heap'[n].children[j].state = "Exclusive"
                               /\ heap'[n].children[j].target \in fresh]_vars

\* an insert of a present value ran last and left, in an Exclusive slot of
\* the root, a duplicate that has a Shared child and no Exclusive child
InsertPresentCopiesSharedPathWitness ==
    /\ last.op = "insert"
    /\ last.result
    /\ \E h \in HandleSet, i \in {0, 1} :
          LET c == heap[roots[h]].children[i]
          IN /\ c.state = "Exclusive"
             /\ \E j \in {0, 1} : heap[c.target].children[j].state = "Shared"
             /\ \A j \in {0, 1} : heap[c.target].children[j].state # "Exclusive"
             /\ \E t \in SharedTargets(heap) :
                   t # c.target /\ heap[t].element = heap[c.target].element

\* C12: after snapshot(A) has returned B, no slot reachable from A and no slot
\* reachable from B is Exclusive, also when inserts made part of A Exclusive
\* again after an earlier snapshot.
AllSharedAfterSnapshot ==
    last.op = "snapshot" =>
       /\ ~panicked
       /\ Len(roots) >= 2
       /\ "Exclusive" \notin SlotStates(heap, roots[Len(roots)])
       /\ "Exclusive" \notin SlotStates(heap, roots[origin[Len(roots)]])

\* a snapshot of A ran last; A had an earlier snapshot and has since got a
\* value that the earlier snapshot lacks
AllSharedAfterSnapshotWitness ==
    /\ last.op = "snapshot"
    /\ ~panicked
    /\ \E g \in HandleSet :
          /\ g < Len(roots)
          /\ origin[g] = origin[Len(roots)]
          /\ Contents(heap, roots[origin[g]]) \ Contents(heap, roots[g]) # {}
          /\ "Shared" \in SlotStates(heap, roots[origin[g]])

\* C14: structural sharing at snapshot.  A snapshot creates one node, the
\* returned root, whatever the size of the tree; the new root has the element
\* of the receiver's root and slot by slot the state (Shared or None) and the
\* target of the receiver's root after promotion.
SnapshotCreatesOneNode ==
    [][\A a \in HandleSet :
          (last'.op = "snapshot" /\ Snapshot(a)) =>
             /\ next' = next + 1
             /\ DOMAIN heap' = (DOMAIN heap) \cup {next}
             /\ roots' = Append(roots, next)
             /\ heap'[next].element = heap[roots[a]].element
             /\ \A i \in {0, 1} :
                   /\ heap'[next].children[i] = heap'[roots[a]].children[i]
                   /\ heap'[next].children[i].state \in {"Shared", "None"}
                   /\ heap'[next].children[i].target
                         = heap[roots[a]].children[i].target]_vars

\* a snapshot ran last on a tree of at least three nodes: the new root differs
\* from the receiver's root and reaches the very same nodes below it
SnapshotCreatesOneNodeWitness ==
    /\ last.op = "snapshot"
    /\ ~panicked
    /\ Len(roots) >= 2
    /\ LET b == roots[Len(roots)]
           a == roots[origin[Len(roots)]]
       IN /\ a # b
          /\ Cardinality(ReachFrom(heap, a)) >= 3
          /\ ReachFrom(heap, b) \ {b} = ReachFrom(heap, a) \ {a}

\* C16: BST ordering.  In every reachable state, for every node, every
\* element in its left subtree is less than its element and every element in
\* its right subtree is greater; no two nodes reachable from one handle hold
\* equal elements.
BstOrdering ==
    /\ \A n \in DOMAIN heap :
          /\ heap[n].children[0].state # "None" =>
                \A k \in ReachFrom(heap, heap[n].children[0].target) :
                   heap[k].element < heap[n].element
          /\ heap[n].children[1].state # "None" =>
                \A k \in ReachFrom(heap, heap[n].children[1].target) :
                   heap[k].element > heap[n].element
    /\ \A h \in HandleSet :
          \A n1 \in ReachFrom(heap, roots[h]), n2 \in ReachFrom(heap, roots[h]) :
             n1 # n2 => heap[n1].element # heap[n2].element

\* an insert ran last and a handle has a root with a left and a right child,
\* one in a Shared and one in an Exclusive slot
BstOrderingWitness ==
    /\ last.op = "insert"
    /\ \E h \in HandleSet :
          {heap[roots[h]].children[0].state, heap[roots[h]].children[1].state}
             = {"Shared", "Exclusive"}

\* C17: Exclusive means sole owner.  In every reachable state the node in an
\* Exclusive slot is the target of that slot only, is no root, is the target
\* of no Shared slot and is reachable from exactly one handle.
ExclusiveSoleOwner ==
    \A p \in (DOMAIN heap) \X {0, 1} :
       heap[p[1]].children[p[2]].state = "Exclusive" =>
          LET c == heap[p[1]].children[p[2]].target
          IN /\ \A q \in (DOMAIN heap) \X {0, 1} :
                   heap[q[1]].children[q[2]].target = c => q = p
             /\ \A h \in HandleSet : roots[h] # c
             /\ Cardinality({h \in HandleSet : c \in ReachFrom(heap, roots[h])}) = 1

\* an insert ran last; several handles exist, one holds two nodes in
\* Exclusive slots and some node is shared
ExclusiveSoleOwnerWitness ==
    /\ last.op = "insert"
    /\ Len(roots) >= 2
    /\ SharedTargets(heap) # {}
    /\ \E h \in HandleSet : Cardinality(ExclusiveTargets(heap, roots[h])) >= 2

\* C19: shared subtrees are fully shared.  In every reachable state every
\* slot reachable through a Shared slot is Shared or None.
SharedSubtreesFullyShared ==
    \A t \in SharedTargets(heap) : "Exclusive" \notin SlotStates(heap, t)

\* a shared node has a shared child while some handle holds Exclusive slots
SharedSubtreesFullySharedWitness ==
    /\ \E t \in SharedTargets(heap) : "Shared" \in SlotStates(heap, t)
    /\ \E h \in HandleSet : "Exclusive" \in SlotStates(heap, roots[h])
\* C13: make_exclusive on a Shared slot always duplicates, whatever the strong
\* count of the shared node, a single owner included: the slot becomes Exclusive
\* with a fresh node that has the element and the child slots (Shared or None,
\* same targets) of the original; exactly one node is created, no other node
\* is written, and the original is not written (it is released with its last
\* owner and stays as it was otherwise).  On an Exclusive or None slot
\* make_exclusive changes nothing.
PromoteDuplicates ==
    [][(\A x \in DOMAIN heap, j \in {0, 1} :
             heap[x].children[j].state # "Shared" => ChildMakeExclusive(Mem, x, j) = Mem)
        /\ (worker.op = "insert" /\ worker' # worker
                /\ heap[worker.node].element # worker.v) =>
            (LET x == worker.node
                 j == IF worker.v < heap[x].element THEN 0 ELSE 1
                 c == heap[x].children[j]
                 t == c.target
             IN CASE c.state = "Shared" ->
                       /\ ~panicked'
                       /\ next \notin DOMAIN heap
                       /\ next' = next + 1
                       /\ (DOMAIN heap') \ (DOMAIN heap) = {next}
                       /\ heap'[x] = [heap[x] EXCEPT !.children[j] = Exclusive(next)]
                       /\ heap'[next].element = heap[t].element
                       /\ \A i \in {0, 1} :
                             /\ heap'[next].children[i] = heap[t].children[i]
                             /\ heap'[next].children[i].state \in {"Shared", "None"}
                       /\ t \in DOMAIN heap' <=> RefCount(heap, t) > 1
                       /\ t \in DOMAIN heap' => heap'[t] = heap[t]
                       /\ \A y \in (DOMAIN heap) \ {x, t} :
                             y \in DOMAIN heap' /\ heap'[y] = heap[y]
                  [] c.state = "Exclusive" -> heap' = heap /\ next' = next
                  [] c.state = "None" -> TRUE)
      ]_vars

\* an insert has just promoted a Shared slot that was the only owner of its
\* node and now stands on the duplicate, the original being released
PromoteDuplicatesWitness ==
    /\ worker.op = "insert"
    /\ worker.slot = "Shared"
    /\ worker.owners = 1
    /\ worker.node = next - 1
    /\ \E t \in 1..(next - 1) : t \notin DOMAIN heap

\* C15: make_shared is idempotent and stops at Shared slots: on a tree whose
\* slots are all Shared or None the promotion of snapshot changes nothing and
\* visits the root only; every node it visits is reached from the root through
\* Exclusive slots alone; and no step of it changes contains(v) of any tree.
PromotionStopsAtShared ==
    [][(\A g \in HandleSet :
            LET once == NodeMakeShared(heap, roots[g])
            IN NodeMakeShared(once, roots[g]) = once)
        /\ (worker.op = "snapshot" /\ worker.stack # <<>> /\ worker' # worker) =>
            (LET st == worker.stack
                 st2 == worker'.stack
                 root == roots[worker.h]
             IN /\ st[1].n = root
                /\ \A k \in 2..Len(st2) :
                      heap'[st2[k - 1].n].children[st2[k - 1].i] = Exclusive(st2[k].n)
                /\ Len(st2) > Len(st) =>
                      heap[st[Len(st)].n].children[st2[Len(st)].i] =
                          Exclusive(st2[Len(st2)].n)
                /\ \A g \in HandleSet :
                      Contents(heap', roots[g]) = Contents(heap, roots[g])
                /\ (worker.visits = 1 /\ Len(st) = 1 /\ ~st[1].back
                        /\ SlotStates(heap, root) \subseteq {"Shared", "None"}) =>
                      /\ heap' = heap
                      /\ st2 = <<>>
                      /\ worker'.visits = 1)
      ]_vars

\* a snapshot of a tree of several nodes that has visited the root only
PromotionStopsAtSharedWitness ==
    /\ worker.op = "done"
    /\ worker.was = "snapshot"
    /\ worker.visits = 1
    /\ worker.limit >= 2

\* C18: a contains on one handle, interleaved node visit by node visit with
\* a contains, insert or snapshot on another handle, returns what it returns
\* when it runs alone; and no step of an operation writes or releases a node
\* reachable from another handle.
InterleavedContains ==
    [][/\ (reader.op = "contains" /\ reader'.op = "done") =>
              reader'.result = reader'.alone
       /\ (worker.op \in Running /\ worker' # worker) =>
              \A g \in HandleSet \ {worker.h} :
                 \A y \in ReachFrom(heap, roots[g]) :
                    y \in DOMAIN heap' /\ heap'[y] = heap[y]
      ]_vars

\* a contains has returned after writes of an insert on another handle, with
\* which it shares nodes, and that insert is still running
InterleavedContainsWitness ==
    /\ reader.op = "done"
    /\ reader.raced
    /\ reader.result
    /\ worker.op = "insert"
    /\ worker.slot = "Shared"
    /\ SharedTargets(heap) # {}

\* C20: every insert and contains goes from a node to a child of it at each
\* visit and returns after at most as many visits as the tree has levels
\* (depth + 1); the promotion of a snapshot enters each node at most once and
\* every step of it enters a node or leaves one; an operation that is running
\* can always take its next step, and it returns.
BoundedTraversal ==
    /\ [][(worker.op \in {"insert", "contains"} /\ worker' # worker) =>
              /\ worker'.visits = worker.visits + 1
              /\ worker'.visits <= worker.limit
              /\ worker'.op # "done" =>
                    /\ worker'.op = worker.op
                    /\ worker'.node # worker.node
                    /\ \E i \in {0, 1} :
                          /\ heap'[worker.node].children[i].state # "None"
                          /\ heap'[worker.node].children[i].target = worker'.node
          ]_vars
    /\ [][(worker.op = "snapshot" /\ worker' # worker) =>
              /\ worker'.visits <= worker.limit
              /\ worker'.op = "snapshot" =>
                    \/ Len(worker'.stack) = Len(worker.stack) + 1
                    \/ Len(worker'.stack) = Len(worker.stack) - 1
          ]_vars
    /\ [](worker.op \in Running => ENABLED WorkerStep)
    /\ (worker.op \in Running) ~> (worker.op = "done")

\* an insert has returned after one visit on each level of a tree of three
\* levels
BoundedTraversalWitness ==
    /\ worker.op = "done"
    /\ worker.was = "insert"
    /\ worker.limit >= 3
    /\ worker.visits = worker.limit

====
